---- MODULE Spec2Model ----
(***************************************************************************)
(* WaveClock: a point-cloud wave field whose amplitude, frequency and      *)
(* speed encode the wall-clock time.  Two application variants exist:      *)
(*   "index"  (src/src/index.js)     and                                   *)
(*   "part"   (src/unnamed/part_000).                                      *)
(*                                                                         *)
(* Numbers.  JavaScript and GLSL compute in floating point; here every     *)
(* real r is held as the integer floor(r * Q) (fixed point, Q = 10^4),     *)
(* and every angle as an integer number of ticks, where one full turn      *)
(* (2*pi) is TicksPerTurn = 12 h in milliseconds, so that the rotation of  *)
(* every clock hand is an exact integer.  sin is Bhaskara's rational       *)
(* approximation (exact at 0, pi/6, pi/2, ..., error below 0.002).         *)
(***************************************************************************)
EXTENDS Integers, Sequences, FiniteSets, TLC

VARIABLES
  app,             \* which variant runs: "index" or "part"
  pc,              \* "idle" between frames, "render" during the vertex pass
  date,            \* the Date sampled by the last updateScene call
  uniforms,        \* the shared uniforms object
  writes,          \* the uniform names written by the last updateScene, in order
  hourRotation,    \* the three rotation angles of the last updateScene call
  minuteRotation,
  secondRotation,
  clockTime,       \* textContent of the clockTime element
  clockSeconds,    \* textContent of the clockSeconds element ("index" only)
  position,        \* the plane geometry's position attribute, per vertex
  displaced,       \* per vertex: what the vertex shader produced this frame
  probe            \* input/output of a stand-alone evaluation of noise

vars == <<app, pc, date, uniforms, writes, hourRotation, minuteRotation,
          secondRotation, clockTime, clockSeconds, position, displaced, probe>>

frameVars == <<app, pc, date, uniforms, writes, hourRotation, minuteRotation,
               secondRotation, clockTime, clockSeconds, position, displaced>>

Undefined == "undefined"

(***************************************************************************)
(* Bounds of the model.                                                    *)
(***************************************************************************)
\* u_time (seconds since the app started) is capped at MaxTime frames of 1 s.
MaxTime == 2
\* Number of plane vertices the vertex pass evaluates.
NumVertices == 3
\* Corner hashes of the stand-alone blend are drawn from k/HashSteps, k < HashSteps.
HashSteps == 3
\* Fractional offsets of the stand-alone blend are drawn from k/FractSteps.
FractSteps == 4

\* Clock readings the frames may sample (Date fields).
HourSamples == {0, 3, 11, 12, 15, 23}
MinuteSamples == {0, 5, 59}
SecondSamples == {0, 9, 59}
MillisecondSamples == {0, 1, 999}

Dates ==
  [hours : HourSamples, minutes : MinuteSamples,
   seconds : SecondSamples, milliseconds : MillisecondSamples]

(***************************************************************************)
(* Fixed-point reals and angles.                                           *)
(***************************************************************************)
Q == 100 * 100

Real(num, den) == (num * Q) \div den

Mul(a, b) == (a * b) \div Q

Abs(x) == IF x < 0 THEN -x ELSE x

TicksPerTurn == 12 * 60 * 60 * 1000

PI == TicksPerTurn \div 2

\* Resolution at which sin reads its argument: a half turn is SinHalf steps.
SinHalf == PI \div 10000

\* Bhaskara I: sin(x) ~ 16 x (pi - x) / (5 pi^2 - 4 x (pi - x)) on [0, pi].
SinArc(q) ==
  LET n == 16 * q * (SinHalf - q)
      d == 5 * SinHalf * SinHalf - 4 * q * (SinHalf - q)
  IN  (n * 100) \div (d \div 100)

\* Math.sin / GLSL sin of an angle in ticks, Q-scaled.
Sin(angle) ==
  LET r == angle % TicksPerTurn
  IN  IF r < PI THEN SinArc(r \div 10000)
                ELSE -SinArc((r - PI) \div 10000)

\* Math.cos / GLSL cos.
Cos(angle) == Sin(angle + PI \div 2)

(***************************************************************************)
(* Strings: Number.prototype.toString and String.prototype.padStart.       *)
(***************************************************************************)
DigitChars == <<"0", "1", "2", "3", "4", "5", "6", "7", "8", "9">>

RECURSIVE toString(_)
toString(n) ==
  IF n < 10 THEN DigitChars[n + 1]
            ELSE toString(n \div 10) \o DigitChars[(n % 10) + 1]

RECURSIVE padStart(_, _, _)
padStart(s, targetLength, padString) ==
  IF Len(s) >= targetLength THEN s
  ELSE padStart(padString \o s, targetLength, padString)

\* formatTime of src/src/index.js: hours, minutes and an AM/PM suffix.
formatTimeIndex(hours, minutes, seconds, ampm) ==
  LET mm == padStart(toString(minutes), 2, "0")
      ss == padStart(toString(seconds), 2, "0")
      hh == IF hours = 0 THEN 12 ELSE hours
  IN  toString(hh) \o ":" \o mm \o " " \o ampm

\* formatTime of src/unnamed/part_000: hours, minutes and seconds.
formatTimePart(hours, minutes, seconds) ==
  LET mm == padStart(toString(minutes), 2, "0")
      ss == padStart(toString(seconds), 2, "0")
  IN  toString(hours) \o ":" \o mm \o ":" \o ss

(***************************************************************************)
(* updateScene: the clock sample, the rotation angles, the six writes.     *)
(*                                                                         *)
(* index.js derives every angle from the fractional clock value; part_000  *)
(* derives the hour angle from hours + minutes/60 and the minute angle     *)
(* from minutes + seconds/60.  part_000 assigns the three rotations (and   *)
(* clockTimeElement) to names it never declares; the assignments are taken *)
(* to succeed, as they do in non-strict code.                              *)
(***************************************************************************)
\* sampleClock with the hours kept in 24-hour form (the `% 12` left out).
sampleClock_hours24(d) ==
  [milliseconds |-> d.milliseconds,
   seconds      |-> d.seconds,
   minutes      |-> d.minutes,
   hours        |-> d.hours,
   ampm         |-> IF d.hours >= 12 THEN "PM" ELSE "AM"]

\* The fields updateScene reads from `new Date()`.
sampleClock(d) ==
  [milliseconds |-> d.milliseconds,
   seconds      |-> d.seconds,
   minutes      |-> d.minutes,
   hours        |-> d.hours % 12,
   ampm         |-> IF d.hours >= 12 THEN "PM" ELSE "AM"]

MIDNIGHT(a) == IF a = "index" THEN PI \div 2 ELSE -(PI \div 2)

\* fractionalSeconds, fractionalMinutes, fractionalHours of index.js, in ms.
fractionalSeconds(c) == c.seconds * 1000 + c.milliseconds
fractionalMinutes(c) == c.minutes * 60000 + fractionalSeconds(c)
fractionalHours(c) == c.hours * 3600000 + fractionalMinutes(c)

\* MIDNIGHT - 2 pi x / period, for x and period in milliseconds.
Rotation(a, ms, period) == MIDNIGHT(a) - (TicksPerTurn \div period) * ms

HourPeriod == 12 * 3600000
MinutePeriod == 60 * 60000
SecondPeriod == 60 * 1000

hourRotationOf(a, c) ==
  IF a = "index"
  THEN Rotation(a, fractionalHours(c), HourPeriod)
  ELSE Rotation(a, c.hours * 3600000 + c.minutes * 60000, HourPeriod)

minuteRotationOf(a, c) ==
  IF a = "index"
  THEN Rotation(a, fractionalMinutes(c), MinutePeriod)
  ELSE Rotation(a, c.minutes * 60000 + c.seconds * 1000, MinutePeriod)

secondRotationOf(a, c) ==
  Rotation(a, c.seconds * 1000 + c.milliseconds, SecondPeriod)

WaveNames ==
  {"u_noise_amp_1", "u_noise_amp_2", "u_noise_freq_1", "u_noise_freq_2",
   "u_spd_modifier_1", "u_spd_modifier_2"}

\* sceneWrites with the second assignment aimed at u_noise_amp_1 again, so
\* that u_noise_amp_1 is written twice and u_noise_amp_2 never.
sceneWrites_dup(a, c) ==
  LET h == hourRotationOf(a, c)
      m == minuteRotationOf(a, c)
      s == secondRotationOf(a, c)
  IN  IF a = "index"
      THEN << <<"u_noise_amp_1", Real(1, 10) + Mul(Abs(Sin(s)), Real(4, 10))>>,
              <<"u_noise_amp_1", Real(1, 10) + Mul(Abs(Sin(s)), Real(4, 10))>>,
              <<"u_noise_freq_1", Real(25, 100) + Mul(Abs(Sin(m)), Real(25, 10))>>,
              <<"u_noise_freq_2", Real(25, 100) + Mul(Abs(Sin(m)), Real(25, 10))>>,
              <<"u_spd_modifier_1", Real(3, 10) + Mul(Abs(Sin(h)), Real(15, 10))>>,
              <<"u_spd_modifier_2", Real(3, 10) + Mul(Abs(Sin(h)), Real(15, 10))>> >>
      ELSE << <<"u_noise_amp_1", Real(1, 10) + Mul(Sin(s), Real(5, 10))>>,
              <<"u_noise_amp_1", Real(1, 10) + Mul(Cos(s), Real(5, 10))>>,
              <<"u_noise_freq_1", Real(1, 10) + Mul(Sin(m), Real(275, 100))>>,
              <<"u_noise_freq_2", Real(1, 10) + Mul(Cos(m), Real(275, 100))>>,
              <<"u_spd_modifier_1", Real(1, 100) + Mul(Sin(h), Real(15, 10))>>,
              <<"u_spd_modifier_2", Real(1, 100) + Mul(Cos(h), Real(15, 10))>> >>

\* The six assignments of updateScene, in source order: <<uniform, value>>.
sceneWrites(a, c) ==
  LET h == hourRotationOf(a, c)
      m == minuteRotationOf(a, c)
      s == secondRotationOf(a, c)
  IN  IF a = "index"
      THEN << <<"u_noise_amp_1", Real(1, 10) + Mul(Abs(Sin(s)), Real(4, 10))>>,
              <<"u_noise_amp_2", Real(1, 10) + Mul(Abs(Sin(s)), Real(4, 10))>>,
              <<"u_noise_freq_1", Real(25, 100) + Mul(Abs(Sin(m)), Real(25, 10))>>,
              <<"u_noise_freq_2", Real(25, 100) + Mul(Abs(Sin(m)), Real(25, 10))>>,
              <<"u_spd_modifier_1", Real(3, 10) + Mul(Abs(Sin(h)), Real(15, 10))>>,
              <<"u_spd_modifier_2", Real(3, 10) + Mul(Abs(Sin(h)), Real(15, 10))>> >>
      ELSE << <<"u_noise_amp_1", Real(1, 10) + Mul(Sin(s), Real(5, 10))>>,
              <<"u_noise_amp_2", Real(1, 10) + Mul(Cos(s), Real(5, 10))>>,
              <<"u_noise_freq_1", Real(1, 10) + Mul(Sin(m), Real(275, 100))>>,
              <<"u_noise_freq_2", Real(1, 10) + Mul(Cos(m), Real(275, 100))>>,
              <<"u_spd_modifier_1", Real(1, 100) + Mul(Sin(h), Real(15, 10))>>,
              <<"u_spd_modifier_2", Real(1, 100) + Mul(Cos(h), Real(15, 10))>> >>

\* `uniforms.<name>.value = v` for each write of w, first to last.
RECURSIVE store(_, _)
store(u, w) ==
  IF w = <<>> THEN u
  ELSE store([u EXCEPT ![Head(w)[1]] = Head(w)[2]], Tail(w))

\* updateUniforms easing u_noise_amp_1 half-way from its previous value
\* towards the new one instead of assigning it.
updateUniforms_eased(u, a, c) ==
  [store(u, sceneWrites(a, c)) EXCEPT !.u_noise_amp_1 = (u.u_noise_amp_1 + @) \div 2]

\* The uniforms object after updateScene has run on clock sample c.
updateUniforms(u, a, c) == store(u, sceneWrites(a, c))

\* The names of a write list, in order.
writtenNames(w) == [k \in 1 .. Len(w) |-> w[k][1]]

\* The uniforms object as constructed (getDefaultUniforms gives u_time = 0).
initialUniforms(a) ==
  IF a = "index"
  THEN [u_time |-> 0, u_pointsize |-> Real(25, 10),
        u_noise_freq_1 |-> Real(1, 1), u_noise_amp_1 |-> Real(1, 1),
        u_spd_modifier_1 |-> Real(1, 1),
        u_noise_freq_2 |-> Real(1, 1), u_noise_amp_2 |-> Real(1, 1),
        u_spd_modifier_2 |-> Real(1, 1)]
  ELSE [u_time |-> 0, u_pointsize |-> Real(2, 1),
        u_noise_freq_1 |-> Real(3, 1), u_noise_amp_1 |-> Real(2, 10),
        u_spd_modifier_1 |-> Real(1, 1),
        u_noise_freq_2 |-> Real(2, 1), u_noise_amp_2 |-> Real(3, 10),
        u_spd_modifier_2 |-> Real(8, 10)]

(***************************************************************************)
(* The plane: PlaneGeometry(4, 4, 128, 128), vertices 1/32 apart, z = 0.   *)
(***************************************************************************)
PosUnit == 128 \div 4

\* Vertices of the plane the model evaluates, <<x, y>> in 1/PosUnit.
PlanePoints == <<<<-64, 64>>, <<0, 0>>, <<17, -40>>, <<64, -64>>, <<-3, 5>>>>

Vertices == 1 .. NumVertices

planePosition(v) == [x |-> PlanePoints[v][1], y |-> PlanePoints[v][2], z |-> 0]

(***************************************************************************)
(* The vertex shader.                                                      *)
(***************************************************************************)
\* 2 pi radians, Q-scaled (pi ~ 355/113).
TwoPiQ == (2 * 355 * Q) \div 113

\* An angle of r radians (Q-scaled, 0 <= r < TwoPiQ) in ticks.
RadToTicks(r) == (r * (((TicksPerTurn \div 100) * 1000) \div TwoPiQ)) \div 10

\* random(st) = fract(sin(dot(st, vec2(12.9898, 78.233))) * 43758.5453123),
\* for the integer-valued st noise passes it; Q-scaled, in [0, 1).
random(st) ==
  LET dot == 129898 * st[1] + 782330 * st[2]
      s   == Sin(RadToTicks(dot % TwoPiQ))
  IN  (s * 43758 + (s * 5453) \div 10000) % Q

\* Resolution of the fractional offset f and of the smoothed weight u.
U == 10 * 10

\* f*f*(3.0-2.0*f) for one component; f is Q-scaled in [0, 1), u is U-scaled.
smooth(f) ==
  LET fq == (f * U) \div Q
  IN  (fq * fq * (3 * U - 2 * fq)) \div (U * U)

\* mix(x, y, t) = x*(1-t) + y*t; t is U-scaled, the result is scaled by U more.
mix(x, y, t) == x * (U - t) + y * t

\* mixCorners with the factor (1.0 - u.x) of the second term left out.
mixCorners_unweighted(a, b, c, d, u) ==
  (mix(a, b, u[1]) * U
     + (c - a) * u[2] * U
     + (d - b) * u[1] * u[2]) \div (U * U)

\* mix(a, b, u.x) + (c - a)*u.y*(1.0 - u.x) + (d - b)*u.x*u.y, Q-scaled.
mixCorners(a, b, c, d, u) ==
  (mix(a, b, u[1]) * U
     + (c - a) * u[2] * (U - u[1])
     + (d - b) * u[1] * u[2]) \div (U * U)

\* floor(st) and fract(st) of a Q-scaled vec2.
floor2(st) == <<st[1] \div Q, st[2] \div Q>>
fract2(st) == <<st[1] % Q, st[2] % Q>>

\* corners with b and c taken from each other's lattice point.
corners_swapped(st) ==
  LET i == floor2(st)
  IN  <<random(i), random(<<i[1], i[2] + 1>>),
        random(<<i[1] + 1, i[2]>>), random(<<i[1] + 1, i[2] + 1>>)>>

\* The four corner hashes a, b, c, d of the tile that holds st.
corners(st) ==
  LET i == floor2(st)
  IN  <<random(i), random(<<i[1] + 1, i[2]>>),
        random(<<i[1], i[2] + 1>>), random(<<i[1] + 1, i[2] + 1>>)>>

noise(st) ==
  LET k == corners(st)
      f == fract2(st)
      u == <<smooth(f[1]), smooth(f[2])>>
  IN  mixCorners(k[1], k[2], k[3], k[4], u)

\* mat2(cos, -sin, sin, cos) (column-major) times the vec2 v given in
\* 1/PosUnit; the product is Q-scaled.
rotate2d(angle, v) ==
  <<(Cos(angle) * v[1] + Sin(angle) * v[2]) \div PosUnit,
    (Cos(angle) * v[2] - Sin(angle) * v[1]) \div PosUnit>>

\* The six wave uniforms of u.
wave(u) == [n \in WaveNames |-> u[n]]

\* main() of the vertex shader for a vertex whose position attribute is p
\* (x, y in 1/PosUnit): the displaced z (Q-scaled) and the uniforms it read.
main(p, u) ==
  LET t1 == Mul(u.u_time, u.u_spd_modifier_1)
      st1 == <<(p.x * u.u_noise_freq_1) \div PosUnit + t1,
               (p.y * u.u_noise_freq_1) \div PosUnit + t1>>
      z1 == p.z + Mul(noise(st1), u.u_noise_amp_1)
      r  == rotate2d(PI \div 4, <<p.y, p.x>>)
      t2 == Mul(Mul(u.u_time, u.u_spd_modifier_2), Real(6, 10))
      st2 == <<Mul(r[1], u.u_noise_freq_2) - t2, Mul(r[2], u.u_noise_freq_2) - t2>>
      z2 == z1 + Mul(noise(st2), u.u_noise_amp_2)
  IN  [done |-> TRUE, z |-> z2, read |-> wave(u)]

\* attributeAfter with the displaced z written back into the attribute.
attributeAfter_inplace(pos, v, out) == [pos EXCEPT ![v].z = out.z]

\* The position attribute after the shader ran for vertex v: main works on
\* the copy `vec3 pos = position`, the attribute itself is never written.
attributeAfter(pos, v, out) == pos

(***************************************************************************)
(* The application: construction, frames, the vertex pass, the GUI.        *)
(***************************************************************************)
NotRun == [done |-> FALSE, z |-> 0, read |-> [n \in WaveNames |-> 0]]

NoProbe ==
  [drawn |-> FALSE, done |-> TRUE, st |-> <<0, 0>>, k |-> <<0, 0, 0, 0>>,
   u |-> <<0, 0>>, out |-> 0]

\* The state after the module is loaded and initScene has run.  part_000
\* takes its clockTime element from the page and sets no text; it has no
\* clockSeconds element.
Construct ==
  /\ app \in {"index", "part"}
  /\ pc = "idle"
  /\ date = Undefined
  /\ uniforms = initialUniforms(app)
  /\ writes = <<>>
  /\ hourRotation = Undefined
  /\ minuteRotation = Undefined
  /\ secondRotation = Undefined
  /\ clockTime = IF app = "index" THEN "00:00:00" ELSE ""
  /\ clockSeconds = IF app = "index" THEN "00" ELSE Undefined
  /\ position = [v \in Vertices |-> planePosition(v)]
  /\ displaced = [v \in Vertices |-> NotRun]

Init == Construct /\ probe = NoProbe

\* What updateScene leaves in the clockTime element.
clockTimeText(a, c) ==
  IF a = "index"
  THEN formatTimeIndex(c.hours, c.minutes, c.seconds, c.ampm)
  ELSE formatTimePart(c.hours, c.minutes, c.seconds)

\* One animation frame: the driver sets u_time to the elapsed time, calls
\* updateScene (which samples the clock, here reading d) and then renders,
\* which starts the vertex pass over the plane.
Frame(d) ==
  /\ pc = "idle"
  /\ uniforms.u_time + Q <= MaxTime * Q
  /\ LET c == sampleClock(d)
     IN  /\ date' = d
         /\ hourRotation' = hourRotationOf(app, c)
         /\ minuteRotation' = minuteRotationOf(app, c)
         /\ secondRotation' = secondRotationOf(app, c)
         /\ clockTime' = clockTimeText(app, c)
         /\ clockSeconds' = IF app = "index"
                            THEN padStart(toString(c.seconds), 2, "0")
                            ELSE clockSeconds
         /\ uniforms' = updateUniforms([uniforms EXCEPT !.u_time = @ + Q], app, c)
         /\ writes' = writtenNames(sceneWrites(app, c))
  /\ displaced' = [v \in Vertices |-> NotRun]
  /\ pc' = "render"
  /\ UNCHANGED <<app, position, probe>>

\* The vertex shader runs for vertex v; the vertices of a frame run in any order.
Vertex(v) ==
  /\ pc = "render"
  /\ ~displaced[v].done
  /\ LET out == main(position[v], uniforms)
     IN  /\ displaced' = [displaced EXCEPT ![v] = out]
         /\ position' = attributeAfter(position, v, out)
  /\ UNCHANGED <<app, pc, date, uniforms, writes, hourRotation, minuteRotation,
                 secondRotation, clockTime, clockSeconds, probe>>

\* The draw call is over: every vertex has been displaced.
EndFrame ==
  /\ pc = "render"
  /\ \A v \in Vertices : displaced[v].done
  /\ pc' = "idle"
  /\ UNCHANGED <<app, date, uniforms, writes, hourRotation, minuteRotation,
                 secondRotation, clockTime, clockSeconds, position, displaced, probe>>

\* The ends of the GUI's slider on u_pointsize.
pointSizeRange(a) ==
  IF a = "index" THEN {Real(1, 1), Real(5, 1)} ELSE {Real(1, 1), Real(10, 1)}

\* The user moves the slider; event handlers run between frames.
Gui(value) ==
  /\ pc = "idle"
  /\ uniforms' = [uniforms EXCEPT !.u_pointsize = value]
  /\ UNCHANGED <<app, pc, date, writes, hourRotation, minuteRotation,
                 secondRotation, clockTime, clockSeconds, position, displaced, probe>>

Next ==
  \/ \E d \in Dates : Frame(d)
  \/ \E v \in Vertices : Vertex(v)
  \/ EndFrame
  \/ \E value \in pointSizeRange(app) : Gui(value)

Spec == Init /\ [][Next]_vars

(***************************************************************************)
(* noise on its own: the blend applied to inputs drawn from bounded sets.  *)
(***************************************************************************)
HashGrid == {(k * Q) \div HashSteps : k \in 0 .. HashSteps - 1} \cup {Q - 1}

FractGrid == {(k * Q) \div FractSteps : k \in 0 .. FractSteps - 1} \cup {Q - 1}

PointGrid == {(k * Q) \div FractSteps : k \in -FractSteps .. 2 * FractSteps}

\* Either four corner values and a fractional offset, or a point st.
ProbeInputs ==
  [drawn : {TRUE}, done : {FALSE}, st : FractGrid \X FractGrid,
   k : HashGrid \X HashGrid \X HashGrid \X HashGrid, u : {<<0, 0>>}, out : {0}]
  \cup
  [drawn : {FALSE}, done : {FALSE}, st : PointGrid \X PointGrid,
   k : {<<0, 0, 0, 0>>}, u : {<<0, 0>>}, out : {0}]

InitNoise == Construct /\ probe \in ProbeInputs

\* The smoothing and the blend of noise on the drawn corners.
EvalBlend ==
  /\ probe.drawn /\ ~probe.done
  /\ LET u == <<smooth(probe.st[1]), smooth(probe.st[2])>>
     IN  probe' = [probe EXCEPT !.u = u, !.done = TRUE,
                     !.out = mixCorners(probe.k[1], probe.k[2], probe.k[3], probe.k[4], u)]
  /\ UNCHANGED frameVars

\* noise(st), with the corner hashes and weights it used.
EvalNoise ==
  /\ ~probe.drawn /\ ~probe.done
  /\ LET f == fract2(probe.st)
     IN  probe' = [probe EXCEPT !.k = corners(probe.st), !.done = TRUE,
                     !.u = <<smooth(f[1]), smooth(f[2])>>,
                     !.out = noise(probe.st)]
  /\ UNCHANGED frameVars

NextNoise == EvalBlend \/ EvalNoise

SpecNoise == InitNoise /\ [][NextNoise]_vars

(***************************************************************************)
(* Claims.                                                                 *)
(***************************************************************************)
\* The clock sample of the frame being rendered.
Now == sampleClock(date)

\* The distance between two angles, modulo a full turn.
AngDist(x, y) ==
  LET d == (x - y) % TicksPerTurn
  IN  IF d <= TicksPerTurn - d THEN d ELSE TicksPerTurn - d

\* C1: after updateScene, u_noise_amp_1, u_noise_amp_2, u_noise_freq_1 and
\* u_noise_freq_2 are all >= 0, in both variants.
C1_AmpFreqNonNegative ==
  pc = "render" =>
    /\ uniforms.u_noise_amp_1 >= 0
    /\ uniforms.u_noise_amp_2 >= 0
    /\ uniforms.u_noise_freq_1 >= 0
    /\ uniforms.u_noise_freq_2 >= 0

\* The Date one millisecond before d.
MsBefore(d) ==
  IF d.milliseconds > 0 THEN [d EXCEPT !.milliseconds = @ - 1]
  ELSE IF d.seconds > 0 THEN [d EXCEPT !.milliseconds = 999, !.seconds = @ - 1]
  ELSE IF d.minutes > 0
       THEN [d EXCEPT !.milliseconds = 999, !.seconds = 59, !.minutes = @ - 1]
  ELSE [milliseconds |-> 999, seconds |-> 59, minutes |-> 59,
        hours |-> (d.hours + 23) % 24]

\* The rotation of each hand during one millisecond, in ticks.
HourMsStep == TicksPerTurn \div HourPeriod
MinuteMsStep == TicksPerTurn \div MinutePeriod
SecondMsStep == TicksPerTurn \div SecondPeriod

AtWrap(d) ==
  d.hours \in {0, 12} /\ d.minutes = 0 /\ d.seconds = 0 /\ d.milliseconds = 0

\* C2: at the wrap (23:59:59.999 -> 00:00:00.000 and 11:59:59.999 ->
\* 12:00:00.000) no rotation angle jumps, modulo a full turn, by more than
\* one millisecond's worth of rotation of its hand.
C2_WrapContinuity ==
  (pc = "render" /\ AtWrap(date)) =>
    LET b == sampleClock(MsBefore(date))
    IN  /\ AngDist(hourRotation, hourRotationOf(app, b)) <= HourMsStep
        /\ AngDist(minuteRotation, minuteRotationOf(app, b)) <= MinuteMsStep
        /\ AngDist(secondRotation, secondRotationOf(app, b)) <= SecondMsStep

\* n as two decimal digits.
TwoDigits(n) == DigitChars[(n \div 10) + 1] \o DigitChars[(n % 10) + 1]

\* h:mm:ss in the 12-hour convention (hour 0 shown as 12).
TwelveHourText(c) ==
  (IF c.hours = 0 THEN "12"
   ELSE IF c.hours < 10 THEN DigitChars[c.hours + 1] ELSE TwoDigits(c.hours))
    \o ":" \o TwoDigits(c.minutes) \o ":" \o TwoDigits(c.seconds)

\* C3: the displayed time string is h:mm:ss in the 12-hour convention with
\* hour 0 shown as 12 and two-digit minutes and seconds, optionally followed
\* by an AM/PM suffix.
C3_TwelveHourZeroPadded ==
  pc = "render" =>
    clockTime \in {TwelveHourText(Now), TwelveHourText(Now) \o " AM",
                   TwelveHourText(Now) \o " PM"}

\* C4: two clock samples that differ in the milliseconds or in the seconds
\* field get different second, minute and hour angles.
C4_FractionalAngles ==
  pc = "render" =>
    \A e \in Dates :
      (e.milliseconds /= date.milliseconds \/ e.seconds /= date.seconds) =>
        /\ secondRotationOf(app, sampleClock(e)) /= secondRotation
        /\ minuteRotationOf(app, sampleClock(e)) /= minuteRotation
        /\ hourRotationOf(app, sampleClock(e)) /= hourRotation

\* The Date twelve hours from d.
TwelveHoursFrom(d) == [d EXCEPT !.hours = (@ + 12) % 24]

\* C5: the hour angle and every parameter derived from it are the same for
\* H:m:s.ms and (H+12):m:s.ms; the second and minute angles at the start of
\* their cycle equal, modulo a full turn, what the formula gives at 60; and
\* at 0:00:00.000 all three angles equal MIDNIGHT.
C5_RotationPeriodic ==
  pc = "render" =>
    LET twin == sampleClock(TwelveHoursFrom(date))
    IN  /\ hourRotation = hourRotationOf(app, twin)
        /\ uniforms.u_spd_modifier_1 = updateUniforms(uniforms, app, twin).u_spd_modifier_1
        /\ uniforms.u_spd_modifier_2 = updateUniforms(uniforms, app, twin).u_spd_modifier_2
        /\ (date.seconds = 0 /\ date.milliseconds = 0) =>
             AngDist(secondRotation, Rotation(app, SecondPeriod, SecondPeriod)) = 0
        /\ (date.minutes = 0 /\ date.seconds = 0 /\ date.milliseconds = 0) =>
             /\ AngDist(minuteRotation, Rotation(app, MinutePeriod, MinutePeriod)) = 0
             /\ AngDist(hourRotation,
                        Rotation(app, date.hours * 3600000, HourPeriod)) = 0
        /\ (date.hours \in {0, 12} /\ date.minutes = 0 /\ date.seconds = 0
              /\ date.milliseconds = 0) =>
             /\ hourRotation = MIDNIGHT(app)
             /\ minuteRotation = MIDNIGHT(app)
             /\ secondRotation = MIDNIGHT(app)

\* A frame at 12:00:00.000 (twelve hours from 0:00:00.000, every hand at the
\* start of its cycle) has been computed.
C5_Witness ==
  /\ pc = "render"
  /\ date = [hours |-> 12, minutes |-> 0, seconds |-> 0, milliseconds |-> 0]
  /\ hourRotation = MIDNIGHT(app)

\* How many times the name n occurs in the sequence w.
CountOf(w, n) == Cardinality({k \in 1 .. Len(w) : w[k] = n})

\* C6: in every frame updateScene writes each of the six wave uniforms
\* exactly once, before the vertex pass; every vertex evaluated in the frame
\* read the same six values, those written for this frame's clock sample.
C6_WriteThenReads ==
  pc = "render" =>
    /\ \A n \in WaveNames : CountOf(writes, n) = 1
    /\ wave(uniforms) = [n \in WaveNames |->
          LET w == sceneWrites(app, Now)
          IN  w[CHOOSE k \in 1 .. Len(w) : w[k][1] = n][2]]
    /\ \A v \in Vertices : displaced[v].done => displaced[v].read = wave(uniforms)

\* The vertex pass of the second frame is complete.
C6_Witness ==
  /\ pc = "render"
  /\ uniforms.u_time = 2 * Q
  /\ \A v \in Vertices : displaced[v].done

\* C7: a vertex evaluation writes nothing another evaluation reads: in any
\* order of evaluation, the height of every evaluated vertex is the one the
\* shader gives for that vertex's plane position, u_time and the six wave
\* parameters, and the position attribute is left as the plane was built.
C7_VertexIndependent ==
  pc = "render" =>
    /\ position = [v \in Vertices |-> planePosition(v)]
    /\ \A v \in Vertices :
         displaced[v].done => displaced[v] = main(planePosition(v), uniforms)

\* In the second frame the last vertex has been displaced before the first.
C7_Witness ==
  /\ pc = "render"
  /\ uniforms.u_time = 2 * Q
  /\ displaced[NumVertices].done
  /\ displaced[NumVertices].z /= 0
  /\ ~displaced[1].done

\* C8: whatever frames and uniform values came before, updateScene leaves the
\* six wave uniforms and the displayed strings as a first call on the freshly
\* constructed uniforms would for the same clock sample.
C8_DependsOnlyOnSample ==
  pc = "render" =>
    /\ wave(uniforms) = wave(updateUniforms(initialUniforms(app), app, Now))
    /\ clockTime = clockTimeText(app, Now)
    /\ app = "index" => clockSeconds = TwoDigits(Now.seconds)

\* A second frame has been computed, after the slider was moved, and its
\* wave uniforms differ from the constructed ones.
C8_Witness ==
  /\ pc = "render"
  /\ uniforms.u_time = 2 * Q
  /\ uniforms.u_pointsize /= initialUniforms(app).u_pointsize
  /\ wave(uniforms) /= wave(initialUniforms(app))

Min2(x, y) == IF x <= y THEN x ELSE y
Max2(x, y) == IF x >= y THEN x ELSE y
Min4(k) == Min2(Min2(k[1], k[2]), Min2(k[3], k[4]))
Max4(k) == Max2(Max2(k[1], k[2]), Max2(k[3], k[4]))

\* The bilinear interpolation of the corners k with weights u, Q-scaled.
Bilinear(k, u) ==
  (k[1] * (U - u[1]) * (U - u[2]) + k[2] * u[1] * (U - u[2])
     + k[3] * (U - u[1]) * u[2] + k[4] * u[1] * u[2]) \div (U * U)

\* C9: the corner hashes are in [0,1), the smoothed weights in [0,1], and
\* the blend computed by noise is the bilinear interpolation of the four
\* corners: it is never below the smallest corner nor above the largest,
\* hence in [0,1].
C9_NoiseWithinCorners ==
  probe.done =>
    /\ \A j \in 1 .. 4 : 0 <= probe.k[j] /\ probe.k[j] < Q
    /\ \A j \in 1 .. 2 : 0 <= probe.u[j] /\ probe.u[j] <= U
    /\ probe.out = Bilinear(probe.k, probe.u)
    /\ Min4(probe.k) <= probe.out /\ probe.out <= Max4(probe.k)
    /\ 0 <= probe.out /\ probe.out <= Q

\* noise has been evaluated inside a tile, strictly between its corners.
C9_Witness ==
  /\ probe.done /\ ~probe.drawn
  /\ probe.u[1] > 0 /\ probe.u[2] > 0
  /\ Min4(probe.k) < probe.out /\ probe.out < Max4(probe.k)

\* C10: after updateScene, u_spd_modifier_1 and u_spd_modifier_2 are not zero
\* and have the same sign, so that the two layers' time offsets
\* (u_time * u_spd_modifier_1 and -u_time * u_spd_modifier_2 * 0.6) move in
\* opposite directions.
C10_SpeedsSameSign ==
  pc = "render" => uniforms.u_spd_modifier_1 * uniforms.u_spd_modifier_2 > 0

\* C11: the two layers get different remaps of the same angles: there are
\* clock samples for which updateScene gives layer 1 and layer 2 a
\* different amplitude, a different frequency and a different speed.
C11_LayersDiffer ==
  pc = "render" =>
    \E e \in Dates :
      LET u == updateUniforms(uniforms, app, sampleClock(e))
      IN  /\ u.u_noise_amp_1 /= u.u_noise_amp_2
          /\ u.u_noise_freq_1 /= u.u_noise_freq_2
          /\ u.u_spd_modifier_1 /= u.u_spd_modifier_2

\* The value noise tends to at the right edge of the tile left of st's
\* (u.x -> 1, weight uy in y), and at the top edge of the tile below st's.
RightEdgeOfLeftTile(st, uy) ==
  LET k == corners(<<st[1] - Q, st[2]>>)
  IN  mixCorners(k[1], k[2], k[3], k[4], <<U, uy>>)

TopEdgeOfLowerTile(st, ux) ==
  LET k == corners(<<st[1], st[2] - Q>>)
  IN  mixCorners(k[1], k[2], k[3], k[4], <<ux, U>>)

\* C12: adjacent tiles share their corner hashes, so noise on the left edge
\* of a tile (fractional x = 0, corners a and c) equals the value the tile
\* to its left reaches at its right edge (corners b and d), likewise across
\* the bottom/top edge, and at a lattice point noise is that point's hash.
C12_ContinuousAcrossTiles ==
  (probe.done /\ ~probe.drawn) =>
    LET f == fract2(probe.st)
    IN  /\ f[1] = 0 =>
             /\ probe.out = RightEdgeOfLeftTile(probe.st, probe.u[2])
             /\ probe.out = mix(probe.k[1], probe.k[3], probe.u[2]) \div U
        /\ f[2] = 0 =>
             /\ probe.out = TopEdgeOfLowerTile(probe.st, probe.u[1])
             /\ probe.out = mix(probe.k[1], probe.k[2], probe.u[1]) \div U
        /\ (f[1] = 0 /\ f[2] = 0) => probe.out = random(floor2(probe.st))

\* noise has been evaluated on the left edge of a tile, between two lattice
\* points whose hashes differ.
C12_Witness ==
  /\ probe.done /\ ~probe.drawn
  /\ fract2(probe.st)[1] = 0 /\ probe.u[2] > 0
  /\ probe.k[1] /= probe.k[3]
  /\ probe.out = RightEdgeOfLeftTile(probe.st, probe.u[2])

====
